---- MODULE Spec2Model ----
(***************************************************************************)
(* The analysis engine of the Solana wallet dashboard                      *)
(* (src/docs/reference/solana-wallet-dashboard.jsx): analyze and trkCp,    *)
(* which scan a transaction list into daily buckets, counterparty records  *)
(* and flow events, and compWin and compHourlyTrend, which summarise the   *)
(* flow events against the clock.                                          *)
(*                                                                         *)
(* Units.  Instants are milliseconds since an epoch that is a UTC          *)
(* midnight, so that instant \div DAY is the UTC calendar day; the ISO     *)
(* date string toISOString().slice(0, 10) is an order-preserving,          *)
(* one-to-one name of that day and is modelled by the day number.  An      *)
(* amount of SOL is nt.amount / LAMPORTS; every SOL figure of the program  *)
(* is a sum of such quotients and is held as its numerator, in lamports.   *)
(* A token amount is held in units of 1e-7 token.  The viewer's time zone  *)
(* is a fixed offset from UTC (no daylight-saving change inside a run).    *)
(***************************************************************************)
EXTENDS Integers, Sequences, FiniteSets, TLC

\* ------------------------------------------------------------ constants

LAMPORTS == 1000000000
SECOND == 1000
HOUR == 3600000
DAY == 86400000
\* the number of daily buckets and of recurrence entries
BucketDays == 15
RecurrenceDays == 15
\* slice(0, 30) of the counterparty list, slice(0, 5) of a window's wallets
TopCounterparties == 30
TopWallets == 5
\* the dust thresholds: sol < 1e-6 with sol = amount / LAMPORTS is
\* amount < LAMPORTS / 1e6; amt < 1e-6 is fewer than 10 units of 1e-7
DustPerSol == 1000000
TokenDust == 10
\* compWin's bucket sizes and compHourlyTrend's lookback
FiveMinutes == 300000
TrendDays == 3
\* fetchTxs: the lookback in days, limit=100 and the page ceiling
FetchDays == 15
PageLimit == 100
PageCeiling == 20
\* the wallet slots of the dashboard
Slots == 3

\* ------------------------------------------------------------ bounds

\* transactions and transfers of a list of the mixed family
MaxTxs == 2
MaxTransfers == 2
\* transactions of a list of the daily family (one per day, going back)
MaxDailyTxs == 16
\* native transfers of the one transaction of a list of the fanout family
MaxFanout == 32
\* transfers of a list of the events family
MaxEvents == 2
\* native transfers of the one transaction of a list of the crowd family
MaxCrowd == 7
\* the UTC day of the analysis
NowDay == 20
\* handleAnalyze calls in flight at once, in the reentry family
MaxRuns == 2

\* ------------------------------------------------------------ inputs

Wallet == "W"
\* counterparties are "X" and "Y"; "" is a transfer end the server left empty
FanoutAddrs ==
  << "A01", "A02", "A03", "A04", "A05", "A06", "A07", "A08", "A09", "A10",
     "A11", "A12", "A13", "A14", "A15", "A16", "A17", "A18", "A19", "A20",
     "A21", "A22", "A23", "A24", "A25", "A26", "A27", "A28", "A29", "A30",
     "A31", "A32", "A33", "A34", "A35", "A36" >>

\* the instant of the analysis: early and late in a UTC day
Nows == {NowDay * DAY + 2 * HOUR, NowDay * DAY + 22 * HOUR}
\* the viewer's offset from UTC: New York, UTC, Singapore
TzOffsets == {0 - 5 * HOUR, 0, 8 * HOUR}
\* how long before the analysis a transaction of the mixed family happened,
\* in seconds: now, and 15 days (the fetch cutoff)
MixedAges == {0, 15 * 86400}

\* the families analyze is checked on, and those the panels are checked on
Families == {"mixed", "daily", "fanout"}
PanelFamilies == {"events", "crowd"}

\* compWin's durations (lines 592-594)
Windows == {HOUR, 6 * HOUR, DAY}
\* The clock during a compWin or compHourlyTrend call, as << delay, drift >>:
\* the call starts delay ms after the analysis, and the clock advances by
\* drift ms between the call's first and second Date.now().
ClockReads == { << 0, 0 >>, << 1, 0 >>, << 0, 1 >> }

\* mints as character sequences, so that short() can cut them
MintA == << "E", "P", "j", "F", "W", "d", "d", "5", "t", "1", "v" >>
MintB == << "E", "P", "j", "F", "X", "x", "x", "5", "t", "1", "v" >>
MintC == << "J", "U", "P" >>
NoMint == << >>

NT(a, f, t) == [amount |-> a, fromUserAccount |-> f, toUserAccount |-> t]
\* has: whether the server sent tokenAmount at all
TT(has, a, f, t, m) ==
  [hasAmount |-> has, tokenAmount |-> a, fromUserAccount |-> f,
   toUserAccount |-> t, mint |-> m]

\* The mixed family: the first transfer of a list is of any kind, the later
\* ones are of the common kinds.
\* the native transfers: dust and the threshold, in and out, with two
\* counterparties, to the wallet itself, between strangers, and with the
\* sender left empty
MixedNative ==
  { NT(999, "X", "W"), NT(1000, "X", "W"), NT(2500, "W", "X"),
    NT(2500, "Y", "W"), NT(999, "W", "Y"),
    NT(2500, "W", "W"), NT(2500, "X", "Y"), NT(2500, "", "W") }

\* its token transfers: no amount, dust, the threshold, two mints with one
\* label, no mint, and a transfer to the wallet itself
MixedToken ==
  { TT(FALSE, 0, "X", "W", MintA), TT(TRUE, 9, "X", "W", MintA),
    TT(TRUE, 10, "X", "W", MintA), TT(TRUE, 25, "W", "X", MintB),
    TT(TRUE, 25, "W", "Y", NoMint), TT(TRUE, 25, "W", "W", MintC) }

CommonNative == { NT(999, "X", "W"), NT(1000, "X", "W"), NT(2500, "W", "X") }
CommonToken == { TT(TRUE, 10, "X", "W", MintA), TT(TRUE, 25, "W", "X", MintB) }

\* The events family: transactions now, an hour ago (the edge of the 1 h
\* window) and three days ago (the edge of the trend), each with at least
\* one transfer: SOL in from X, SOL out to Y, a token out to X.
EventAges == {0, 3600, 3 * 86400}
EventNative == { NT(2500, "X", "W"), NT(1000, "W", "Y") }
EventToken == { TT(TRUE, 25, "W", "X", MintA) }

\* ------------------------------------------------------------ helpers

Min(a, b) == IF a < b THEN a ELSE b

RECURSIVE SumSeq(_)
SumSeq(s) == IF s = << >> THEN 0 ELSE Head(s) + SumSeq(Tail(s))

\* a.slice(0, n) and a.slice(-n) of a string
SliceHead(a, n) == SubSeq(a, 1, Min(n, Len(a)))
SliceTail(a, n) == SubSeq(a, Len(a) - Min(n, Len(a)) + 1, Len(a))

short(a) == IF a = << >> THEN << >> ELSE SliceHead(a, 4) \o << "..." >> \o SliceTail(a, 4)

\* new Date(ts).toISOString().slice(0, 10): the UTC day of an instant
IsoDay(t) == t \div DAY

\* d.setHours(0, 0, 0, 0): local midnight of the local day of instant t
LocalMidnight(t, off) == ((t + off) \div DAY) * DAY - off

\* LocalHour read in UTC
UtcHour(t, off) == (t \div HOUR) % 24

\* new Date(ts).getHours(): the local hour of day
LocalHour(t, off) == ((t + off) \div HOUR) % 24

\* the key of bucket i (14 = oldest .. 0 = today): local midnight, moved back
\* i local days, named by its UTC day
BucketKey(t, off, i) == IsoDay(LocalMidnight(t, off) - i * DAY)

\* Array.prototype.sort under (a, b) => key(b) - key(a).  The sort is stable,
\* so its result is the one sequence that lists the elements by falling key
\* and, under one key, in the order they had: the elements with the largest
\* key first, in their order, then those with the next key, and so on.
IndicesWith(keys, v) ==
  SelectSeq([ i \in 1..Len(keys) |-> i ], LAMBDA i : keys[i] = v)

RECURSIVE OrderDesc(_, _)
OrderDesc(keys, K) ==
  IF K = {} THEN << >>
  ELSE LET m == CHOOSE x \in K : \A y \in K : y <= x
       IN  IndicesWith(keys, m) \o OrderDesc(keys, K \ {m})

SortDesc(s, keys) ==
  LET order == OrderDesc(keys, { keys[i] : i \in 1..Len(keys) })
  IN  [ p \in 1..Len(s) |-> s[order[p]] ]

\* arr.slice(0, n)
Slice(s, n) == SubSeq(s, 1, Min(n, Len(s)))

\* ------------------------------------------------------------ state

VARIABLES
  family,   \* the family the transaction list is drawn from
  now,      \* Date.now() when analyze runs
  tz,       \* the viewer's offset from UTC, in ms
  pc,       \* analyze's position: "scan" at the top of the transaction loop,
            \* "native" / "token" inside the current transaction's loops,
            \* "done" once it has returned
  txs,      \* the transactions and transfers scanned so far; the last
            \* transaction is the current one
  departed, \* whether the list has left its family's regular pattern
            \* (daily, fanout: a list departs from it at most once)
  dMap,     \* day key -> daily bucket
  cpMap,    \* the counterparty records, in the order the object got its keys
  raw,      \* the flow events
  result,   \* what analyze returned
  panel,    \* what the last compWin or compHourlyTrend call returned
  \* the dashboard component's state (useState, lines 452-468)
  wallets,        \* the three wallet inputs
  apiKey,         \* the key input
  loading,
  progress,       \* the progress message
  errors,         \* per slot, the transaction fetch's message
  results,        \* per slot, analyze's result or null
  holdingsArr,    \* per slot, the holdings or null
  holdingsErrors, \* per slot, the holdings fetch's message
  isDemo,
  activeTab,      \* the slot shown, 0..2
  runs,           \* the handleAnalyze calls in flight: each one's captured
                  \* inputs, locals and position
  lastStarted     \* history, not a variable of the program: the place in
                  \* runs of the call that began last, 0 before the first

engineVars == << pc, txs, departed, dMap, cpMap, raw, result, panel >>

uiVars ==
  << wallets, apiKey, loading, progress, errors, results, holdingsArr,
     holdingsErrors, isDemo, activeTab >>

appVars == << uiVars, runs, lastStarted >>

vars == << family, now, tz, engineVars, appVars >>

NoResult == [returned |-> FALSE]
NoPanel == [kind |-> "none"]

\* null, and an array of one value per slot
Null == [kind |-> "null"]
PerSlot(v) == [ i \in 1..Slots |-> v ]

\* setProgress(""), and the slot of a run that is not in flight
NoProgress == [wallet |-> 0, text |-> "", n |-> 0]
NoRun == [pc |-> "idle"]

\* the component as mounted with nothing in the URL or localStorage: the
\* state the analysis engine's specifications leave alone
Mounted ==
  /\ wallets = PerSlot(<< >>)
  /\ apiKey = << >>
  /\ loading = FALSE
  /\ progress = NoProgress
  /\ errors = PerSlot("")
  /\ results = PerSlot(Null)
  /\ holdingsArr = PerSlot(Null)
  /\ holdingsErrors = PerSlot("")
  /\ isDemo = FALSE
  /\ activeTab = 0
  /\ runs = [ r \in 1..MaxRuns |-> NoRun ]
  /\ lastStarted = 0

\* ------------------------------------------------------------ trkCp

\* the index of addr's record in m, 0 when m[addr] is undefined
CpIndex(m, addr) ==
  IF \E i \in 1..Len(m) : m[i].address = addr
  THEN CHOOSE i \in 1..Len(m) : m[i].address = addr
  ELSE 0

\* NewCp already counting one transfer
NewCpCounted(addr) ==
  [address |-> addr, count |-> 1, totalSol |-> 0, incomingSol |-> 0,
   outgoingSol |-> 0, days |-> {}, dd |-> << >>, tokens |-> << >>]

\* the record of lines 225-228
NewCp(addr) ==
  [address |-> addr, count |-> 0, totalSol |-> 0, incomingSol |-> 0,
   outgoingSol |-> 0, days |-> {}, dd |-> << >>, tokens |-> << >>]

\* c.tokens[tok] = (c.tokens[tok] || 0) + v, the keys in insertion order
AddToken(tokens, tok, v) ==
  IF \E i \in 1..Len(tokens) : tokens[i].name = tok
  THEN [ i \in 1..Len(tokens) |->
           IF tokens[i].name = tok
           THEN [tokens[i] EXCEPT !.volume = @ + v]
           ELSE tokens[i] ]
  ELSE Append(tokens, [name |-> tok, volume |-> v])

\* c.dd[dk] after "if (!c.dd[dk]) c.dd[dk] = {incoming: 0, outgoing: 0}"
WithDay(dd, dk) ==
  IF dk \in DOMAIN dd
  THEN dd
  ELSE [ k \in DOMAIN dd \cup {dk} |->
           IF k = dk THEN [incoming |-> 0, outgoing |-> 0] ELSE dd[k] ]

\* BumpCount by two
BumpCountTwice(n) == n + 2

\* c.count++
BumpCount(n) == n + 1

AddDay(days, dk) == days \cup {dk}

trkCp(m, addr, dk, iA, oA, tok) ==
  LET m1 == IF CpIndex(m, addr) = 0 THEN Append(m, NewCp(addr)) ELSE m
      i == CpIndex(m1, addr)
      c == m1[i]
      c1 == [c EXCEPT
               !.count = BumpCount(@),
               !.totalSol = @ + iA + oA,
               !.incomingSol = @ + iA,
               !.outgoingSol = @ + oA,
               !.days = AddDay(@, dk),
               !.dd = [WithDay(@, dk) EXCEPT
                         ![dk] = [incoming |-> @.incoming + iA,
                                  outgoing |-> @.outgoing + oA]],
               !.tokens = IF tok # << >> THEN AddToken(@, tok, iA + oA) ELSE @]
  IN  [m1 EXCEPT ![i] = c1]

\* ------------------------------------------------------------ analyze

\* "Initialize 15 daily buckets": the keys, and the map over them
BucketKeys(t, off) == { BucketKey(t, off, i) : i \in 0..(BucketDays - 1) }

\* InitialBuckets one day short
InitialBucketsShort(t, off) ==
  [ k \in { BucketKey(t, off, i) : i \in 0..(BucketDays - 2) } |->
      [date |-> k, incoming |-> 0, outgoing |-> 0, txCount |-> 0] ]

InitialBuckets(t, off) ==
  [ k \in BucketKeys(t, off) |->
      [date |-> k, incoming |-> 0, outgoing |-> 0, txCount |-> 0] ]

\* the current transaction, its instant and its day key
CurTx == txs[Len(txs)]
TxTs(tx) == tx.timestamp * SECOND
TxDay(tx) == IsoDay(TxTs(tx))

\* transfers scanned so far, over all transactions
RECURSIVE CountTransfers(_)
CountTransfers(list) ==
  IF list = << >> THEN 0
  ELSE Len(Head(list).nativeTransfers) + Len(Head(list).tokenTransfers)
       + CountTransfers(Tail(list))

\* sol < 1e-6, with sol = nt.amount / LAMPORTS
\* NativeDust with the threshold itself counted as dust
NativeDustInclusive(amount) == amount <= LAMPORTS \div DustPerSol

NativeDust(amount) == amount < LAMPORTS \div DustPerSol

\* tt.tokenAmount || 0, then amt < 1e-6
TokenAmt(tt) == IF tt.hasAmount THEN tt.tokenAmount ELSE 0
TokenIsDust(tt) == TokenAmt(tt) < TokenDust

\* cp = isIn ? from : isOut ? to : null
Counterparty(t) ==
  IF t.toUserAccount = Wallet THEN t.fromUserAccount
  ELSE IF t.fromUserAccount = Wallet THEN t.toUserAccount
  ELSE ""

\* if (cp && cp !== wallet)
\* Tracked without the comparison with the wallet
TrackedAny(cp) == cp # ""

Tracked(cp) == cp # "" /\ cp # Wallet

Init ==
  /\ family \in Families
  /\ now \in Nows
  /\ tz \in TzOffsets
  /\ pc = "scan"
  /\ txs = << >>
  /\ departed = FALSE
  /\ dMap = InitialBuckets(now, tz)
  /\ cpMap = << >>
  /\ raw = << >>
  /\ result = NoResult
  /\ panel = NoPanel
  /\ Mounted

\* The timestamps (in seconds) the next transaction of the list may carry.
\* mixed: any of the ages, in any order.  daily: one transaction per day,
\* each a day older than the one before, each with a transfer.  fanout: one
\* transaction.
NextTimestamps ==
  CASE family = "mixed" ->
         IF Len(txs) < MaxTxs
         THEN { now \div SECOND - age : age \in MixedAges } ELSE {}
    [] family = "daily" ->
         IF /\ Len(txs) < MaxDailyTxs
            /\ (Len(txs) = 0 \/ Len(txs[Len(txs)].nativeTransfers) > 0)
         THEN { now \div SECOND - Len(txs) * (DAY \div SECOND) } ELSE {}
    [] family \in {"fanout", "crowd"} ->
         IF Len(txs) = 0
         THEN { now \div SECOND } ELSE {}
    [] family = "events" ->
         IF /\ CountTransfers(txs) < MaxEvents
            /\ (Len(txs) = 0 \/ CountTransfers(<< txs[Len(txs)] >>) > 0)
         THEN { now \div SECOND - age : age \in EventAges } ELSE {}

\* for (const tx of txs): the next transaction; lines 146-148
ScanTx(timestamp) ==
  /\ pc \in {"scan", "native", "token"}
  /\ timestamp \in NextTimestamps
  /\ LET tx == [timestamp |-> timestamp, nativeTransfers |-> << >>,
                tokenTransfers |-> << >>]
         dk == TxDay(tx)
     IN  /\ txs' = Append(txs, tx)
         /\ dMap' = IF dk \in DOMAIN dMap
                    THEN [dMap EXCEPT ![dk].txCount = @ + 1]
                    ELSE dMap
  /\ pc' = "native"
  /\ UNCHANGED << family, now, tz, departed, cpMap, raw, result, panel >>
  /\ UNCHANGED appVars

\* The native transfers the current transaction may hold next: the regular
\* ones of the family, and the departures from it.
\* daily: the first transfer of the day comes from X; a departure is a
\* second one from X on the same day, or one to Y instead.
\* fanout, crowd: every transfer comes from an address not seen before; a
\* departure is one going back to the latest address.
FanoutLimit == IF family = "crowd" THEN MaxCrowd ELSE MaxFanout

RegularNative ==
  CASE pc # "native" -> {}
    [] family = "mixed" ->
         IF CountTransfers(txs) = 0 THEN MixedNative
         ELSE IF CountTransfers(txs) < MaxTransfers THEN CommonNative
         ELSE {}
    [] family = "daily" ->
         IF Len(CurTx.nativeTransfers) = 0 THEN {NT(2500, "X", "W")} ELSE {}
    [] family \in {"fanout", "crowd"} ->
         IF Len(CurTx.nativeTransfers) < FanoutLimit
         THEN {NT(2500, FanoutAddrs[Len(cpMap) + 1], "W")} ELSE {}
    [] family = "events" ->
         IF CountTransfers(txs) < MaxEvents THEN EventNative ELSE {}

ExtraNative ==
  CASE pc # "native" \/ family \in {"mixed", "events"} \/ departed -> {}
    [] family = "daily" ->
         IF Len(CurTx.nativeTransfers) = 0
         THEN {NT(1000, "W", "Y")} ELSE {NT(2500, "X", "W")}
    [] family \in {"fanout", "crowd"} ->
         IF Len(CurTx.nativeTransfers) < FanoutLimit /\ Len(cpMap) > 0
         THEN {NT(1000, "W", FanoutAddrs[Len(cpMap)])} ELSE {}

NextToken ==
  CASE pc \notin {"native", "token"} -> {}
    [] family = "mixed" ->
         IF CountTransfers(txs) = 0 THEN MixedToken
         ELSE IF CountTransfers(txs) < MaxTransfers THEN CommonToken
         ELSE {}
    [] family = "events" ->
         IF CountTransfers(txs) < MaxEvents THEN EventToken ELSE {}
    [] OTHER -> {}

\* what raw.push appends for a token transfer (line 177)
TokenEvent(ts, cp) ==
  [ts |-> ts, incoming |-> 0, outgoing |-> 0, counterparty |-> cp,
   tokenOnly |-> TRUE]

\* AddToBucket with the two directions exchanged
AddToBucketSwapped(b, isIn, isOut, sol) ==
  IF isIn THEN [b EXCEPT !.outgoing = @ + sol]
  ELSE IF isOut THEN [b EXCEPT !.incoming = @ + sol]
  ELSE b

\* lines 157-160: the day's bucket after a native transfer of sol
AddToBucket(b, isIn, isOut, sol) ==
  IF isIn THEN [b EXCEPT !.incoming = @ + sol]
  ELSE IF isOut THEN [b EXCEPT !.outgoing = @ + sol]
  ELSE b

\* InAmount without the test of the direction
InAmountAlways(isIn, sol) == sol

\* the amounts trkCp and raw.push get: isIn ? sol : 0, isOut ? sol : 0
InAmount(isIn, sol) == IF isIn THEN sol ELSE 0
OutAmount(isOut, sol) == IF isOut THEN sol ELSE 0

\* for (const nt of tx.nativeTransfers || []): one native transfer; lines 151-165
NativeTransfer(nt) ==
  /\ pc = "native"
  /\ \/ nt \in RegularNative /\ departed' = departed
     \/ nt \in ExtraNative /\ ~departed /\ departed' = TRUE
  /\ txs' = [txs EXCEPT ![Len(txs)].nativeTransfers = Append(@, nt)]
  /\ LET ts == TxTs(CurTx)
         dk == TxDay(CurTx)
         sol == nt.amount
         isIn == nt.toUserAccount = Wallet
         isOut == nt.fromUserAccount = Wallet
         cp == Counterparty(nt)
     IN  IF NativeDust(sol)
         THEN UNCHANGED << dMap, cpMap, raw >>
         ELSE /\ dMap' = IF dk \in DOMAIN dMap
                         THEN [dMap EXCEPT ![dk] = AddToBucket(@, isIn, isOut, sol)]
                         ELSE dMap
              /\ IF Tracked(cp)
                 THEN /\ cpMap' = trkCp(cpMap, cp, dk, InAmount(isIn, sol),
                                        OutAmount(isOut, sol), << "S", "O", "L" >>)
                      /\ raw' = Append(raw,
                                  [ts |-> ts, incoming |-> InAmount(isIn, sol),
                                   outgoing |-> OutAmount(isOut, sol),
                                   counterparty |-> cp, tokenOnly |-> FALSE])
                 ELSE UNCHANGED << cpMap, raw >>
  /\ UNCHANGED << family, now, tz, pc, result, panel >>
  /\ UNCHANGED appVars

\* tt.mint ? short(tt.mint) : "Token"
TokenLabel(tt) ==
  IF tt.mint # << >> THEN short(tt.mint) ELSE << "T", "o", "k", "e", "n" >>

\* for (const tt of tx.tokenTransfers || []): one token transfer; lines 168-179
TokenTransfer(tt) ==
  /\ pc \in {"native", "token"}
  /\ tt \in NextToken
  /\ txs' = [txs EXCEPT ![Len(txs)].tokenTransfers = Append(@, tt)]
  /\ pc' = "token"
  /\ LET ts == TxTs(CurTx)
         dk == TxDay(CurTx)
         cp == Counterparty(tt)
     IN  IF TokenIsDust(tt) \/ ~Tracked(cp)
         THEN UNCHANGED << cpMap, raw >>
         ELSE /\ cpMap' = trkCp(cpMap, cp, dk, 0, 0, TokenLabel(tt))
              /\ raw' = Append(raw, TokenEvent(ts, cp))
  /\ UNCHANGED << family, now, tz, departed, dMap, result, panel >>
  /\ UNCHANGED appVars

\* ------------------------------------------------------------ analyze: the result

\* Object.keys(dMap).sort(): the day keys, ascending
SortedKeys(S) ==
  [ p \in 1..Cardinality(S) |->
      CHOOSE k \in S : Cardinality({ j \in S : j < k }) = p - 1 ]

\* Object.values(dMap).sort((a, b) => new Date(a.date) - new Date(b.date))
DailyData(m) ==
  LET dates == SortedKeys(DOMAIN m) IN [ p \in 1..Len(dates) |-> m[dates[p]] ]

\* the field of a sequence of records, as a sequence
Counts(s) == [ i \in 1..Len(s) |-> s[i].count ]
Volumes(s) == [ i \in 1..Len(s) |-> s[i].volume ]

\* one entry of the counterparty list before it is sorted (lines 185-194)
CpEntry(c, dates) ==
  [address |-> c.address, count |-> c.count, totalSol |-> c.totalSol,
   incomingSol |-> c.incomingSol, outgoingSol |-> c.outgoingSol,
   activeDays |-> Cardinality(c.days),
   tokens |-> SortDesc(c.tokens, Volumes(c.tokens)),
   daily |-> [ p \in 1..Len(dates) |->
                 [date |-> dates[p],
                  incoming |-> IF dates[p] \in DOMAIN c.dd
                               THEN c.dd[dates[p]].incoming ELSE 0,
                  outgoing |-> IF dates[p] \in DOMAIN c.dd
                               THEN c.dd[dates[p]].outgoing ELSE 0] ]]

\* TopByCount cutting the list before it is sorted
TopByCountSliceFirst(entries) ==
  LET cut == Slice(entries, TopCounterparties) IN SortDesc(cut, Counts(cut))

\* .sort((a, b) => b.count - a.count).slice(0, 30)
TopByCount(entries) == Slice(SortDesc(entries, Counts(entries)), TopCounterparties)

Counterparties(m, dates) ==
  TopByCount([ i \in 1..Len(m) |-> CpEntry(m[i], dates) ])

\* WalletsWithDays counting transfers in place of days
WalletsWithCount(m, d) ==
  Cardinality({ i \in 1..Len(m) : m[i].count = d })

\* dcm[d]: how many records have days.size = d (lines 198-202)
WalletsWithDays(m, d) ==
  Cardinality({ i \in 1..Len(m) : Cardinality(m[i].days) = d })

\* Array.from({length: 15}, ...) (lines 203-207)
Recurrence(m) ==
  [ n \in 1..RecurrenceDays |-> [days |-> n, wallets |-> WalletsWithDays(m, n)] ]

\* Object.keys(c.tokens) over all records, as a set (lines 213-214)
TokenNames(m) ==
  UNION { { m[i].tokens[j].name : j \in 1..Len(m[i].tokens) } : i \in 1..Len(m) }

\* AnalyzeResult with the totals taken from the flow events, not the buckets
AnalyzeResultOfEvents(d, m, events) ==
  LET daily == DailyData(d)
      dates == SortedKeys(DOMAIN d)
  IN  [returned |-> TRUE,
       dailyData |-> daily,
       counterparties |-> Counterparties(m, dates),
       recurrence |-> Recurrence(m),
       totalIn |-> SumSeq([ p \in 1..Len(events) |-> events[p].incoming ]),
       totalOut |-> SumSeq([ p \in 1..Len(events) |-> events[p].outgoing ]),
       totalTx |-> Len(events),
       uniqueWallets |-> Len(m),
       totalTokens |-> Cardinality(TokenNames(m)),
       rawEvents |-> events]

\* lines 182-220: what analyze returns
AnalyzeResult(d, m, events) ==
  LET daily == DailyData(d)
      dates == SortedKeys(DOMAIN d)
  IN  [returned |-> TRUE,
       dailyData |-> daily,
       counterparties |-> Counterparties(m, dates),
       recurrence |-> Recurrence(m),
       totalIn |-> SumSeq([ p \in 1..Len(daily) |-> daily[p].incoming ]),
       totalOut |-> SumSeq([ p \in 1..Len(daily) |-> daily[p].outgoing ]),
       totalTx |-> SumSeq([ p \in 1..Len(daily) |-> daily[p].txCount ]),
       uniqueWallets |-> Len(m),
       totalTokens |-> Cardinality(TokenNames(m)),
       rawEvents |-> events]

\* the transaction loop is exhausted: lines 182-220
Finish ==
  /\ pc \in {"scan", "native", "token"}
  /\ pc' = "done"
  /\ result' = AnalyzeResult(dMap, cpMap, raw)
  /\ UNCHANGED << family, now, tz, txs, departed, dMap, cpMap, raw, panel >>
  /\ UNCHANGED appVars

\* ------------------------------------------------------------ compWin

\* InWindow with the lower bound exclusive
InWindowStrict(e, cut) == e.ts > cut

\* raw.filter(e => e.ts >= cut)
InWindow(e, cut) == e.ts >= cut

EventsFrom(events, cut) == SelectSeq(events, LAMBDA e : InWindow(e, cut))

Incomings(ev) == [ i \in 1..Len(ev) |-> ev[i].incoming ]
Outgoings(ev) == [ i \in 1..Len(ev) |-> ev[i].outgoing ]

\* cc[addr] = (cc[addr] || 0) + 1, the keys in insertion order
BumpCc(cc, addr) ==
  IF \E i \in 1..Len(cc) : cc[i].address = addr
  THEN [ i \in 1..Len(cc) |->
           IF cc[i].address = addr THEN [cc[i] EXCEPT !.n = @ + 1] ELSE cc[i] ]
  ELSE Append(cc, [address |-> addr, n |-> 1])

RECURSIVE CountByCp(_, _)
CountByCp(ev, cc) ==
  IF ev = << >> THEN cc
  ELSE CountByCp(Tail(ev), BumpCc(cc, Head(ev).counterparty))

\* one entry of topWallets: the sums over ev.filter(e => e.counterparty === addr)
TopEntry(ev, addr) ==
  LET w == SelectSeq(ev, LAMBDA e : e.counterparty = addr)
  IN  [address |-> addr, incoming |-> SumSeq(Incomings(w)),
       outgoing |-> SumSeq(Outgoings(w)), count |-> Len(w)]

\* TopCc cutting the list before it is sorted
TopCcSliceFirst(cc) ==
  LET cut == Slice(cc, TopWallets)
  IN  SortDesc(cut, [ i \in 1..Len(cut) |-> cut[i].n ])

\* Object.entries(cc).sort((a, b) => b[1] - a[1]).slice(0, 5)
TopCc(cc) == Slice(SortDesc(cc, [ i \in 1..Len(cc) |-> cc[i].n ]), TopWallets)

TopWalletsOf(ev, cc) ==
  LET top == TopCc(cc) IN [ p \in 1..Len(top) |-> TopEntry(ev, top[p].address) ]

\* bMs = ms <= 3600000 ? 300000 : 3600000; bN = Math.ceil(ms / bMs)
BucketMs(ms) == IF ms <= HOUR THEN FiveMinutes ELSE HOUR
BucketCount(ms) == (ms + BucketMs(ms) - 1) \div BucketMs(ms)

\* Math.min(Math.floor((e.ts - bS) / bMs), bN - 1), counted from 0
BucketIndex(e, bS, bMs, bN) == Min((e.ts - bS) \div bMs, bN - 1)

RECURSIVE FillBuckets(_, _, _, _, _)
FillBuckets(ev, bk, bS, bMs, bN) ==
  IF ev = << >> THEN bk
  ELSE LET e == Head(ev)
           i == BucketIndex(e, bS, bMs, bN)
       IN  FillBuckets(Tail(ev),
             IF i >= 0
             THEN [bk EXCEPT ![i + 1] =
                     [@ EXCEPT !.incoming = @ + e.incoming,
                               !.outgoing = @ + e.outgoing]]
             ELSE bk,
             bS, bMs, bN)

\* t1 and t2 are what Date.now() returns at line 245 and at line 268
compWin(events, ms, t1, t2) ==
  LET cut == t1 - ms
      ev == EventsFrom(events, cut)
      inc == SumSeq(Incomings(ev))
      out == SumSeq(Outgoings(ev))
      cc == CountByCp(ev, << >>)
      bMs == BucketMs(ms)
      bN == BucketCount(ms)
      bS == t2 - ms
      bk == [ i \in 1..bN |->
                [time |-> bS + (i - 1) * bMs, incoming |-> 0, outgoing |-> 0] ]
  IN  [incoming |-> inc, outgoing |-> out, net |-> inc - out,
       txCount |-> Len(ev), walletCount |-> Len(cc),
       topWallets |-> TopWalletsOf(ev, cc),
       buckets |-> FillBuckets(ev, bk, bS, bMs, bN)]

\* ------------------------------------------------------------ compHourlyTrend

\* `${String(h).padStart(2, "0")}:00`, as its two digits
HourEntry(h) ==
  [hour |-> h, label |-> << h \div 10, h % 10 >>, count |-> 0,
   incoming |-> 0, outgoing |-> 0]

\* hourMap as the sequence of its values: entry h + 1 is hour h
RECURSIVE FillHours(_, _, _)
FillHours(ev, hours, off) ==
  IF ev = << >> THEN hours
  ELSE LET e == Head(ev)
           h == LocalHour(e.ts, off)
       IN  FillHours(Tail(ev),
             [hours EXCEPT ![h + 1] =
                [@ EXCEPT !.count = @ + 1,
                          !.incoming = @ + e.incoming,
                          !.outgoing = @ + e.outgoing]],
             off)

\* RankHours sorting by rising count
RankHoursAscending(byHour) ==
  SortDesc(byHour, [ i \in 1..Len(byHour) |-> 0 - byHour[i].count ])

\* byHour.slice().sort((a, b) => b.count - a.count)
RankHours(byHour) == SortDesc(byHour, Counts(byHour))

PeakOf(ranked) == ranked[1]
QuietOf(ranked) == ranked[Len(ranked)]

\* t is what Date.now() returns at line 289, off the viewer's UTC offset
compHourlyTrend(events, t, off) ==
  LET cut == t - TrendDays * DAY
      ev == EventsFrom(events, cut)
      byHour == FillHours(ev, [ i \in 1..24 |-> HourEntry(i - 1) ], off)
      ranked == RankHours(byHour)
  IN  [byHour |-> byHour, ranked |-> ranked, totalCount |-> Len(ev),
       peakHour |-> PeakOf(ranked), quietHour |-> QuietOf(ranked)]

\* ------------------------------------------------------------ the panels

\* a panel of the dashboard calls compWin on the result's flow events
CompWin(ms, clock) ==
  /\ pc = "done"
  /\ LET t1 == now + clock[1]
         t2 == t1 + clock[2]
     IN  panel' = [kind |-> "win", ms |-> ms, t1 |-> t1, t2 |-> t2,
                   res |-> compWin(result.rawEvents, ms, t1, t2)]
  /\ UNCHANGED << family, now, tz, pc, txs, departed, dMap, cpMap, raw, result >>
  /\ UNCHANGED appVars

\* and the 3-day panel calls compHourlyTrend
CompHourlyTrend(delay) ==
  /\ pc = "done"
  /\ LET t == now + delay
     IN  panel' = [kind |-> "trend", t |-> t,
                   res |-> compHourlyTrend(result.rawEvents, t, tz)]
  /\ UNCHANGED << family, now, tz, pc, txs, departed, dMap, cpMap, raw, result >>
  /\ UNCHANGED appVars

Next ==
  \/ \E timestamp \in NextTimestamps : ScanTx(timestamp)
  \/ \E nt \in RegularNative \cup ExtraNative : NativeTransfer(nt)
  \/ \E tt \in NextToken : TokenTransfer(tt)
  \/ Finish

Spec == Init /\ [][Next]_vars

\* the panels, over the flow events of the events and crowd families
InitPanels ==
  /\ family \in PanelFamilies
  /\ now \in Nows
  /\ tz \in TzOffsets
  /\ pc = "scan"
  /\ txs = << >>
  /\ departed = FALSE
  /\ dMap = InitialBuckets(now, tz)
  /\ cpMap = << >>
  /\ raw = << >>
  /\ result = NoResult
  /\ panel = NoPanel
  /\ Mounted

NextPanels ==
  \/ \E timestamp \in NextTimestamps : ScanTx(timestamp)
  \/ \E nt \in RegularNative \cup ExtraNative : NativeTransfer(nt)
  \/ \E tt \in NextToken : TokenTransfer(tt)
  \/ Finish
  \/ \E ms \in Windows, clock \in ClockReads : CompWin(ms, clock)
  \/ \E clock \in ClockReads : CompHourlyTrend(clock[1])

SpecPanels == InitPanels /\ [][NextPanels]_vars

\* ------------------------------------------------------------ fetchTxs

\* arr[i], and arr with arr[i] = v, for the program's indices 0..2
At(arr, i) == arr[i + 1]
SetAt(arr, i, v) == [arr EXCEPT ![i + 1] = v]

\* w.trim()
RECURSIVE TrimStart(_)
TrimStart(w) ==
  IF w # << >> /\ Head(w) = " " THEN TrimStart(Tail(w)) ELSE w

RECURSIVE TrimEnd(_)
TrimEnd(w) ==
  IF w # << >> /\ w[Len(w)] = " " THEN TrimEnd(SubSeq(w, 1, Len(w) - 1)) ELSE w

Trim(w) == TrimEnd(TrimStart(w))

\* res.ok
ResOk(status) == status >= 200 /\ status <= 299

\* the messages of lines 60-61
InvalidKeyMessage == "Invalid Helius API key"
HeliusError(status) == "Helius error " \o ToString(status)

\* StatusMessage giving the key message for 401 alone
StatusMessage401Only(status) ==
  IF status = 401 THEN InvalidKeyMessage ELSE HeliusError(status)

StatusMessage(status) ==
  IF status = 401 \/ status = 403 THEN InvalidKeyMessage ELSE HeliusError(status)

\* before = null (signatures are positive numbers)
NoCursor == 0

\* tx.timestamp * 1000 < cutoff
IsOld(tx, cutoff) == tx.timestamp * SECOND < cutoff

\* Pushed without the cutoff test
PushedAll(page, cutoff) == page

\* the items of a page the for loop pushes: those before the first old one
Pushed(page, cutoff) ==
  LET old == { k \in 1..Len(page) : IsOld(page[k], cutoff) }
  IN  IF old = {} THEN page
      ELSE SubSeq(page, 1, (CHOOSE k \in old : \A j \in old : k <= j) - 1)

\* A step of a run is computed on the pair of the run's record and the
\* progress message, st = [run, progress].

\* page++; onProgress(`Fetching page ${page}...`); fetch(url)   (lines 54-58)
SendPage(st) ==
  LET page == st.run.page + 1
  IN  [run |-> [st.run EXCEPT
                  !.page = page, !.pc = "page",
                  !.url = [kind |-> "transactions", wallet |-> st.run.addr,
                           key |-> st.run.key, before |-> st.run.before]],
       progress |-> [wallet |-> st.run.i + 1, text |-> "Fetching page",
                     n |-> page]]

\* the call fetchTxs(addr, key, ...) at clock reading t, up to its first await
fetchTxs(st, t) ==
  SendPage([st EXCEPT !.run.cutoff = t - FetchDays * 24 * 60 * 60 * 1000,
                      !.run.all = << >>, !.run.before = NoCursor,
                      !.run.page = 0, !.run.txs = << >>])

\* the request fetchHoldings sends first (lines 80-91)
HoldingsUrl(run) == [kind |-> "holdings", wallet |-> run.addr, key |-> run.key,
                     before |-> NoCursor]

\* analyze(addr, txData): the result object, held by the wallet and the
\* transactions it was computed from
Analysis(addr, txData) ==
  [kind |-> "analysis", wallet |-> addr, transactions |-> Len(txData)]

\* fetchTxs returns all (lines 75-76); handleAnalyze stores the outcome and
\* calls fetchHoldings (lines 516-520, 527)
Returned(st) ==
  LET run == st.run
      txData == run.all
      kept == IF Len(txData) = 0
              THEN [run EXCEPT !.newErrors =
                      SetAt(@, run.i, "No transactions in last 15 days.")]
              ELSE [run EXCEPT !.newResults =
                      SetAt(@, run.i, Analysis(run.addr, txData))]
  IN  [run |-> [kept EXCEPT !.pc = "holdings", !.url = HoldingsUrl(run)],
       progress |-> [wallet |-> run.i + 1, text |-> "transactions loaded.",
                     n |-> Len(txData)]]

\* Threw with no catch: the error leaves handleAnalyze, which goes no further
ThrewUncaught(st, message) == [st EXCEPT !.run.pc = "hung"]

\* Threw with the try around the whole loop: the error ends the run
ThrewOut(st, message) ==
  [st EXCEPT !.run.newErrors =
               SetAt(@, st.run.i, IF message # "" THEN message ELSE "Fetch failed"),
             !.run.pc = "commit"]

\* fetchTxs throws an error with this message; the catch of lines 521-523
Threw(st, message) ==
  [st EXCEPT !.run.newErrors =
               SetAt(@, st.run.i, IF message # "" THEN message ELSE "Fetch failed"),
             !.run.pc = "holdings", !.run.url = HoldingsUrl(st.run)]

\* the page request settles with res (lines 59-72)
PageSettled(st, res) ==
  IF res.kind = "reject" THEN Threw([st EXCEPT !.run.res = res], res.message)
  ELSE IF ~ResOk(res.status)
  THEN Threw([st EXCEPT !.run.res = [kind |-> "response", status |-> res.status]],
             StatusMessage(res.status))
  ELSE LET page == res.body
           all == st.run.all \o Pushed(page, st.run.cutoff)
           done == Len(Pushed(page, st.run.cutoff)) < Len(page)
           got == [st EXCEPT !.run.txs = page,
                             !.run.res = [kind |-> "response", status |-> res.status]]
       IN  IF Len(page) = 0 THEN Returned(got)
           ELSE IF done \/ Len(page) < PageLimit
           THEN Returned([got EXCEPT !.run.all = all])
           ELSE [got EXCEPT !.run.all = all,
                            !.run.before = page[Len(page)].signature,
                            !.run.pc = "sleep"]

\* Woke with the ceiling one page later
WokeLate(st) ==
  IF st.run.page > PageCeiling + 1 THEN Returned(st) ELSE SendPage(st)

\* the 200 ms timer fires (lines 72-73)
Woke(st) == IF st.run.page > PageCeiling THEN Returned(st) ELSE SendPage(st)

\* ------------------------------------------------------------ handleAnalyze

\* fetchHoldings' result, held by the wallet it was fetched for
Holdings(addr) == [kind |-> "holdings", wallet |-> addr]

\* the slots i..2 whose input is not blank
FilledFrom(ws, i) == { j \in i..(Slots - 1) : Trim(At(ws, j)) # << >> }

\* the for loop reaches slot i at clock reading t: blank slots are skipped,
\* the first other one starts its fetchTxs; past the last, the run goes on
\* to lines 532-549
ForSlots(st, i, t) ==
  IF FilledFrom(st.run.wallets, i) = {}
  THEN [st EXCEPT !.run.pc = "commit"]
  ELSE LET j == CHOOSE j \in FilledFrom(st.run.wallets, i) :
                  \A k \in FilledFrom(st.run.wallets, i) : j <= k
       IN  fetchTxs([st EXCEPT !.run.i = j,
                               !.run.addr = Trim(At(st.run.wallets, j))], t)

\* fetchHoldings settles (lines 107-130 and 526-530), and the loop goes on
HoldingsSettled(st, res, t) ==
  LET run == [st.run EXCEPT !.res = res]
      ok == /\ res.kind = "response"
            /\ ResOk(res.balance)
            /\ ResOk(res.assets)
      kept == IF ok
              THEN [run EXCEPT !.newHoldings = SetAt(@, run.i, Holdings(run.addr))]
              ELSE [run EXCEPT !.newHoldingsErrors =
                      SetAt(@, run.i, "Could not load token holdings")]
  IN  ForSlots([st EXCEPT !.run = kept], run.i + 1, t)

\* FindIndex from the far end: the last slot that holds a result
FindLastIndex(arr) ==
  IF \A i \in 0..(Slots - 1) : At(arr, i) = Null THEN 0 - 1
  ELSE CHOOSE i \in 0..(Slots - 1) :
         /\ At(arr, i) # Null
         /\ \A j \in (i + 1)..(Slots - 1) : At(arr, j) = Null

\* newResults.findIndex(r => r !== null)
FindIndex(arr) ==
  IF \A i \in 0..(Slots - 1) : At(arr, i) = Null THEN 0 - 1
  ELSE CHOOSE i \in 0..(Slots - 1) :
         /\ At(arr, i) # Null
         /\ \A j \in 0..(i - 1) : At(arr, j) = Null

\* the runs in flight, and the places free for a new one
Active == { r \in 1..MaxRuns : runs[r].pc # "idle" }
Free == { r \in 1..MaxRuns : runs[r].pc = "idle" }

\* lines 532-549: run r stores what it gathered and ends
Commit(r, run) ==
  /\ results' = run.newResults
  /\ holdingsArr' = run.newHoldings
  /\ errors' = run.newErrors
  /\ holdingsErrors' = run.newHoldingsErrors
  /\ activeTab' = IF FindIndex(run.newResults) >= 0
                  THEN FindIndex(run.newResults) ELSE activeTab
  /\ loading' = FALSE
  /\ progress' = NoProgress
  /\ runs' = [runs EXCEPT ![r] = NoRun]
  /\ UNCHANGED << wallets, apiKey, isDemo, lastStarted >>

\* run r goes on to st: to its next await, or through lines 532-549
Proceed(r, st) ==
  \E to \in { st } :
  IF to.run.pc = "commit" THEN Commit(r, to.run)
  ELSE /\ runs' = [runs EXCEPT ![r] = to.run]
       /\ progress' = to.progress
       /\ UNCHANGED << wallets, apiKey, loading, errors, results, holdingsArr,
                       holdingsErrors, isDemo, activeTab, lastStarted >>

\* the record of a run at line 503
NewRun ==
  [pc |-> "start", wallets |-> wallets, key |-> Trim(apiKey), i |-> 0,
   addr |-> << >>, cutoff |-> 0, all |-> << >>, before |-> NoCursor,
   page |-> 0, txs |-> << >>, url |-> Null, res |-> Null,
   newResults |-> PerSlot(Null), newHoldings |-> PerSlot(Null),
   newErrors |-> PerSlot(""), newHoldingsErrors |-> PerSlot("")]

\* ------------------------------------------------------------ the dashboard

\* The dashboard's families.  paging: one wallet, whose server may answer
\* any page in any way, up to the page ceiling.  slots: any choice of
\* filled slots, each fetch answered by one page, the holdings fetched or
\* not.  reentry: two wallets, and Enter pressed while a run is in flight.
AppFamilies == {"paging", "slots", "reentry"}

WalletInputs ==
  CASE family = "paging" ->
         { << << "W", "1", " " >>, << " " >>, << >> >> }
    [] family = "slots" ->
         { << a, b, c >> : a \in { << >>, << "W", "1", " " >> },
                           b \in { << " " >>, << "W", "2" >> },
                           c \in { << >>, << " ", "W", "3" >> } }
    [] OTHER ->
         { << << "W", "1" >>, << >>, << " ", "W", "3" >> >> }

KeyInputs ==
  IF family = "slots" THEN { << "k" >>, << " " >> } ELSE { << "k", " " >> }

RunsAtOnce == IF family = "reentry" THEN MaxRuns ELSE 1

\* A page of n transactions, the oldAt-th older than the cutoff by a second
\* and the others on the cutoff and at the clock reading by turns; the
\* signatures number the server's transactions.
PageBody(n, oldAt, run) ==
  [ k \in 1..n |->
      [timestamp |-> IF k = oldAt THEN run.cutoff \div SECOND - 1
                     ELSE IF k % 2 = 1 THEN run.cutoff \div SECOND
                     ELSE now \div SECOND,
       signature |-> run.page * 1000 + k] ]

Answer(status, body) == [kind |-> "response", status |-> status, body |-> body]
Reject(message) == [kind |-> "reject", message |-> message]

\* what the server may answer to the page request of a run
PageAnswers(run) ==
  CASE run.pc # "page" -> {}
    [] family = "paging" ->
         { Answer(200, PageBody(sh[1], sh[2], run)) :
             sh \in { << PageLimit, 0 >>, << PageLimit, 1 >>, << PageLimit, 50 >>,
                      << PageLimit, PageLimit >>, << PageLimit - 1, 0 >>,
                      << 2, 1 >>, << 1, 0 >>, << 0, 0 >> } }
         \cup { Answer(status, << >>) : status \in {401, 403, 429, 500} }
         \cup { Reject("Failed to fetch"), Reject("") }
    [] family = "slots" ->
         { Answer(200, PageBody(1, 0, run)), Answer(200, << >>),
           Answer(403, << >>), Answer(500, << >>) }
    [] OTHER ->
         { Answer(200, PageBody(1, 0, run)), Answer(500, << >>) }

HoldingsAnswer(balance, assets) ==
  [kind |-> "response", balance |-> balance, assets |-> assets]

\* and to the holdings requests
HoldingsAnswers ==
  CASE family = "paging" ->
         { HoldingsAnswer(200, 200), HoldingsAnswer(500, 200), Reject("") }
    [] family = "slots" -> { HoldingsAnswer(200, 200), HoldingsAnswer(200, 500) }
    [] OTHER -> { HoldingsAnswer(200, 200) }

\* handleAnalyze is called (the Analyze button, or Enter in a wallet input):
\* lines 490-515, up to the first await
handleAnalyze ==
  /\ Cardinality(Active) < RunsAtOnce
  /\ IF FilledFrom(wallets, 0) = {} \/ Trim(apiKey) = << >>
     THEN /\ errors' = << "Enter at least one wallet address + Helius API key",
                          "", "" >>
          /\ UNCHANGED << wallets, apiKey, loading, progress, results,
                          holdingsArr, holdingsErrors, isDemo, activeTab, runs,
                          lastStarted >>
     ELSE LET st == ForSlots([run |-> NewRun, progress |-> progress], 0, now)
              r == CHOOSE r \in Free : \A q \in Free : r <= q
          IN  /\ loading' = TRUE
              /\ errors' = PerSlot("")
              /\ results' = PerSlot(Null)
              /\ holdingsArr' = PerSlot(Null)
              /\ holdingsErrors' = PerSlot("")
              /\ isDemo' = FALSE
              /\ runs' = [runs EXCEPT ![r] = st.run]
              /\ lastStarted' = r
              /\ progress' = st.progress
              /\ UNCHANGED << wallets, apiKey, activeTab >>
  /\ UNCHANGED << family, now, tz, engineVars >>

\* the page request of run r settles
PageResponse(r, res) ==
  /\ runs[r].pc = "page"
  /\ res \in PageAnswers(runs[r])
  /\ Proceed(r, PageSettled([run |-> runs[r], progress |-> progress], res))
  /\ UNCHANGED << family, now, tz, engineVars >>

\* the 200 ms timer of run r fires
Timer(r) ==
  /\ runs[r].pc = "sleep"
  /\ Proceed(r, Woke([run |-> runs[r], progress |-> progress]))
  /\ UNCHANGED << family, now, tz, engineVars >>

\* the holdings requests of run r settle
HoldingsResponse(r, res) ==
  /\ runs[r].pc = "holdings"
  /\ res \in HoldingsAnswers
  /\ Proceed(r, HoldingsSettled([run |-> runs[r], progress |-> progress], res, now))
  /\ UNCHANGED << family, now, tz, engineVars >>

\* genDemo(), genDemoHoldings()
DemoResult == [kind |-> "analysis", wallet |-> << "D", "e", "m", "o" >>,
               transactions |-> 0]
DemoHoldings == Holdings(<< "D", "e", "m", "o" >>)

\* a Demo button is clicked (lines 565-573; both buttons need loading false)
handleDemo ==
  /\ family # "paging"
  /\ ~loading
  /\ results' = PerSlot(DemoResult)
  /\ holdingsArr' = PerSlot(DemoHoldings)
  /\ holdingsErrors' = PerSlot("")
  /\ errors' = PerSlot("")
  /\ isDemo' = TRUE
  /\ wallets' = [ i \in 1..Slots |-> << "D", "e", "m", "o", ToString(i) >> ]
  /\ activeTab' = 0
  /\ UNCHANGED << apiKey, loading, progress, runs, lastStarted >>
  /\ UNCHANGED << family, now, tz, engineVars >>

\* results.filter(r => r !== null).length
ResultCount == Cardinality({ i \in 0..(Slots - 1) : At(results, i) # Null })

\* a wallet tab is clicked (lines 699-706): the tabs are there when two or
\* more slots hold a result, one tab per such slot
ClickTab(i) ==
  /\ ResultCount > 1
  /\ At(results, i) # Null
  /\ activeTab' = i
  /\ UNCHANGED << wallets, apiKey, loading, progress, errors, results,
                  holdingsArr, holdingsErrors, isDemo, runs, lastStarted >>
  /\ UNCHANGED << family, now, tz, engineVars >>

InitApp ==
  /\ family \in AppFamilies
  /\ now \in Nows
  /\ tz = 0
  /\ pc = "done"
  /\ txs = << >>
  /\ departed = FALSE
  /\ dMap = InitialBuckets(now, tz)
  /\ cpMap = << >>
  /\ raw = << >>
  /\ result = NoResult
  /\ panel = NoPanel
  /\ wallets \in WalletInputs
  /\ apiKey \in KeyInputs
  /\ loading = FALSE
  /\ progress = NoProgress
  /\ errors = PerSlot("")
  /\ results = PerSlot(Null)
  /\ holdingsArr = PerSlot(Null)
  /\ holdingsErrors = PerSlot("")
  /\ isDemo = FALSE
  /\ activeTab = 0
  /\ runs = [ r \in 1..MaxRuns |-> NoRun ]
  /\ lastStarted = 0

NextApp ==
  \/ handleAnalyze
  \/ \E r \in 1..MaxRuns : \E res \in PageAnswers(runs[r]) : PageResponse(r, res)
  \/ \E r \in 1..MaxRuns : Timer(r)
  \/ \E r \in 1..MaxRuns : \E res \in HoldingsAnswers : HoldingsResponse(r, res)
  \/ handleDemo
  \/ \E i \in 0..(Slots - 1) : ClickTab(i)

SpecApp == InitApp /\ [][NextApp]_vars

\* fetchTxs alone: one wallet and a server that answers every request; the
\* requests settle and the timers fire
InitFetch == InitApp /\ family = "paging"

PageStep ==
  \E r \in 1..MaxRuns : \E res \in PageAnswers(runs[r]) : PageResponse(r, res)

TimerStep == \E r \in 1..MaxRuns : Timer(r)

HoldingsStep ==
  \E r \in 1..MaxRuns : \E res \in HoldingsAnswers : HoldingsResponse(r, res)

NextFetch == handleAnalyze \/ PageStep \/ TimerStep \/ HoldingsStep

SpecFetch ==
  /\ InitFetch
  /\ [][NextFetch]_vars
  /\ WF_vars(PageStep)
  /\ WF_vars(TimerStep)
  /\ WF_vars(HoldingsStep)

\* handleAnalyze over every family, with every request settling and every
\* timer firing: what run r waits for comes, whatever the other runs do
PageOf(r) == \E res \in PageAnswers(runs[r]) : PageResponse(r, res)
HoldingsOf(r) == \E res \in HoldingsAnswers : HoldingsResponse(r, res)

SpecSettling ==
  /\ InitApp
  /\ [][NextFetch]_vars
  /\ \A r \in 1..MaxRuns :
       WF_vars(PageOf(r)) /\ WF_vars(Timer(r)) /\ WF_vars(HoldingsOf(r))

\* ------------------------------------------------------------ the claims

\* the record of address a in m (a has one)
CpOf(m, a) == m[CpIndex(m, a)]

\* the latest day key of the daily buckets: the date of dailyData's last entry
LastBucketDay == CHOOSE k \in DOMAIN dMap : \A j \in DOMAIN dMap : j <= k

\* this step scans one more native transfer of the current transaction
NativeStep ==
  /\ pc = "native"
  /\ Len(txs') = Len(txs)
  /\ Len(txs'[Len(txs)].nativeTransfers) = Len(CurTx.nativeTransfers) + 1

\* this step scans one more token transfer of the current transaction
TokenStep ==
  /\ pc \in {"native", "token"}
  /\ Len(txs') = Len(txs)
  /\ Len(txs'[Len(txs)].tokenTransfers) = Len(CurTx.tokenTransfers) + 1

\* the transfer such a step scans
LastNative(list) ==
  LET l == list[Len(list)].nativeTransfers IN l[Len(l)]
LastToken(list) ==
  LET l == list[Len(list)].tokenTransfers IN l[Len(l)]

\* C1: dailyData has exactly 15 entries, in ascending date order, on 15
\* consecutive calendar days, the last of them the day a transaction
\* timestamped at the current instant is keyed to.
C1_TrailingDays ==
  result.returned =>
    /\ Len(result.dailyData) = 15
    /\ \A p \in 1..(Len(result.dailyData) - 1) :
         result.dailyData[p + 1].date = result.dailyData[p].date + 1
    /\ result.dailyData[Len(result.dailyData)].date
         = IsoDay((now \div SECOND) * SECOND)

\* C2: the recurrence entries' wallets sum to uniqueWallets, the number of
\* distinct counterparties.
C2_RecurrenceMass ==
  result.returned =>
    SumSeq([ n \in 1..Len(result.recurrence) |-> result.recurrence[n].wallets ])
      = result.uniqueWallets

\* C3: every counterparty record's active day keys are among the day keys of
\* the daily buckets.
C3_DaysInBuckets ==
  \A i \in 1..Len(cpMap) : cpMap[i].days \subseteq DOMAIN dMap

\* The case of C4: the step scans a native transfer, not dust, from the
\* tracked wallet to a distinct counterparty, in a transaction whose day key
\* is today's bucket's.
C4_Case ==
  /\ NativeStep
  /\ LastNative(txs').fromUserAccount = Wallet
  /\ LastNative(txs').toUserAccount \notin {Wallet, ""}
  /\ LastNative(txs').amount >= 1000
  /\ TxDay(CurTx) = LastBucketDay

\* what the counterparty's record held before the step
C4_Before(field) ==
  LET x == LastNative(txs').toUserAccount
  IN  IF CpIndex(cpMap, x) = 0 THEN 0 ELSE CpOf(cpMap, x)[field]

\* C4 as claimed: such a transfer adds its amount to today's incoming and to
\* the counterparty's incomingSol, and a counterparty seen for the first
\* time ends with count 1 and one active day.
C4_Original ==
  [][ C4_Case =>
        LET nt == LastNative(txs')
            x == nt.toUserAccount
        IN  /\ dMap'[LastBucketDay].incoming
                 = dMap[LastBucketDay].incoming + nt.amount
            /\ CpOf(cpMap', x).incomingSol = C4_Before("incomingSol") + nt.amount
            /\ CpIndex(cpMap, x) = 0 =>
                 /\ CpOf(cpMap', x).count = 1
                 /\ Cardinality(CpOf(cpMap', x).days) = 1 ]_vars

\* C4 amended: such a transfer adds its amount to today's outgoing and to the
\* counterparty's outgoingSol and leaves both incoming figures as they were;
\* a counterparty seen for the first time ends with count 1 and one active
\* day.
C4_OutgoingToday ==
  [][ C4_Case =>
        LET nt == LastNative(txs')
            x == nt.toUserAccount
        IN  /\ dMap'[LastBucketDay].outgoing
                 = dMap[LastBucketDay].outgoing + nt.amount
            /\ dMap'[LastBucketDay].incoming = dMap[LastBucketDay].incoming
            /\ CpOf(cpMap', x).outgoingSol = C4_Before("outgoingSol") + nt.amount
            /\ CpOf(cpMap', x).incomingSol = C4_Before("incomingSol")
            /\ CpIndex(cpMap, x) = 0 =>
                 /\ CpOf(cpMap', x).count = 1
                 /\ Cardinality(CpOf(cpMap', x).days) = 1 ]_vars

\* C4's case has happened: the result holds a counterparty whose one transfer
\* was sent to it by the wallet today
C4_Witness ==
  /\ result.returned
  /\ \E i \in 1..Len(result.counterparties) :
       /\ result.counterparties[i].count = 1
       /\ result.counterparties[i].activeDays = 1
       /\ result.counterparties[i].outgoingSol >= 1000
       /\ result.counterparties[i].incomingSol = 0
       /\ result.dailyData[Len(result.dailyData)].outgoing
            = result.counterparties[i].outgoingSol

\* the sum of f over the index set S
RECURSIVE SumOver(_, _)
SumOver(f, S) ==
  IF S = {} THEN 0
  ELSE LET i == CHOOSE x \in S : TRUE IN f[i] + SumOver(f, S \ {i})

\* the flow events a window panel's call had to count: those of the result
\* not older than the duration at the call's first clock reading
C5_Inside == { i \in 1..Len(raw) : raw[i].ts >= panel.t1 - panel.ms }

\* those of them with counterparty a
C6_Of(a) == { i \in C5_Inside : raw[i].counterparty = a }

\* C5: compWin's txCount, incoming, outgoing, net and walletCount are taken
\* over exactly the events with ts >= now - duration: an event at
\* now - duration is in, an event one millisecond older is out.
C5_WindowTotals ==
  panel.kind = "win" =>
    /\ panel.res.txCount = Cardinality(C5_Inside)
    /\ panel.res.incoming = SumOver(Incomings(raw), C5_Inside)
    /\ panel.res.outgoing = SumOver(Outgoings(raw), C5_Inside)
    /\ panel.res.net = panel.res.incoming - panel.res.outgoing
    /\ panel.res.walletCount
         = Cardinality({ raw[i].counterparty : i \in C5_Inside })
    /\ \A i \in 1..Len(raw) :
         /\ raw[i].ts = panel.t1 - panel.ms => i \in C5_Inside
         /\ raw[i].ts = panel.t1 - panel.ms - 1 => i \notin C5_Inside

\* a call that found one event exactly at now - duration, counted it, and
\* left an older one out
C5_Witness ==
  /\ panel.kind = "win"
  /\ \E i, j \in 1..Len(raw) :
       /\ raw[i].ts = panel.t1 - panel.ms
       /\ raw[i].incoming + raw[i].outgoing > 0
       /\ raw[j].ts < panel.t1 - panel.ms
  /\ panel.res.txCount = 1
  /\ panel.res.incoming + panel.res.outgoing > 0

\* C6: topWallets has at most 5 entries, by falling in-window event count,
\* equal counts in the order the counterparties first appear among the
\* in-window events; no counterparty left out has more in-window events than
\* one kept; each entry's count, incoming and outgoing are the sums over that
\* counterparty's in-window events.
C6_TopWallets ==
  panel.kind = "win" =>
    LET top == panel.res.topWallets
        all == { raw[i].counterparty : i \in C5_Inside }
        n(a) == Cardinality(C6_Of(a))
        first(a) == CHOOSE i \in C6_Of(a) : \A j \in C6_Of(a) : i <= j
    IN  /\ Len(top) = Min(5, Cardinality(all))
        /\ \A p \in 1..Len(top) :
             /\ top[p].address \in all
             /\ top[p].count = n(top[p].address)
             /\ top[p].incoming = SumOver(Incomings(raw), C6_Of(top[p].address))
             /\ top[p].outgoing = SumOver(Outgoings(raw), C6_Of(top[p].address))
        /\ \A p, q \in 1..Len(top) :
             p < q =>
               \/ top[p].count > top[q].count
               \/ /\ top[p].count = top[q].count
                  /\ first(top[p].address) < first(top[q].address)
        /\ \A a \in all \ { top[p].address : p \in 1..Len(top) } :
             \A p \in 1..Len(top) : n(a) <= top[p].count

\* a call over more than 5 in-window counterparties, the busiest of them not
\* among the first five to appear
C6_Witness ==
  /\ panel.kind = "win"
  /\ panel.res.walletCount > 5
  /\ Len(panel.res.topWallets) = 5
  /\ panel.res.topWallets[1].count = 2
  /\ panel.res.topWallets[2].count = 1
  /\ \A i \in 1..5 : raw[i].counterparty # panel.res.topWallets[1].address

\* the hours whose count in byHour is the largest, and the smallest
C7_MaxHours ==
  { h \in 0..23 : \A g \in 0..23 :
      panel.res.byHour[g + 1].count <= panel.res.byHour[h + 1].count }
C7_MinHours ==
  { h \in 0..23 : \A g \in 0..23 :
      panel.res.byHour[g + 1].count >= panel.res.byHour[h + 1].count }

\* C7 as claimed: peakHour is the lowest-numbered hour among those with the
\* largest count and quietHour the lowest-numbered hour among those with the
\* smallest count.
C7_Original ==
  panel.kind = "trend" =>
    /\ panel.res.peakHour.hour \in C7_MaxHours
    /\ \A h \in C7_MaxHours : panel.res.peakHour.hour <= h
    /\ panel.res.quietHour.hour \in C7_MinHours
    /\ \A h \in C7_MinHours : panel.res.quietHour.hour <= h

\* C7 amended: peakHour is the lowest-numbered hour among those with the
\* largest count, quietHour the highest-numbered hour among those with the
\* smallest count; with no events they are hour 0 and hour 23.
C7_PeakFirstQuietLast ==
  panel.kind = "trend" =>
    /\ panel.res.peakHour.hour \in C7_MaxHours
    /\ \A h \in C7_MaxHours : panel.res.peakHour.hour <= h
    /\ panel.res.quietHour.hour \in C7_MinHours
    /\ \A h \in C7_MinHours : panel.res.quietHour.hour >= h
    /\ panel.res.peakHour = panel.res.byHour[panel.res.peakHour.hour + 1]
    /\ panel.res.quietHour = panel.res.byHour[panel.res.quietHour.hour + 1]
    /\ panel.res.totalCount = 0 =>
         panel.res.peakHour.hour = 0 /\ panel.res.quietHour.hour = 23

\* a trend over events in two hours of equal, largest count, the hours
\* without events many
C7_Witness ==
  /\ panel.kind = "trend"
  /\ panel.res.totalCount = 2
  /\ Cardinality(C7_MaxHours) = 2
  /\ Cardinality(C7_MinHours) = 22
  /\ panel.res.peakHour.count = 1

\* the counterparties of the flow events appended during the scan
C8_Seen == { raw[i].counterparty : i \in 1..Len(raw) }

\* the record count of address a after the scan
C8_CountOf(a) == Cardinality({ i \in 1..Len(raw) : raw[i].counterparty = a })

\* C8: the counterparties list holds min(30, number of distinct
\* counterparties) entries, one per counterparty, by falling transfer count;
\* no counterparty left out has more transfers than one kept; uniqueWallets
\* counts every distinct counterparty of the scan.
C8_TopThirty ==
  result.returned =>
    LET cps == result.counterparties
        kept == { cps[p].address : p \in 1..Len(cps) }
    IN  /\ Len(cps) = Min(30, Cardinality(C8_Seen))
        /\ Cardinality(kept) = Len(cps)
        /\ kept \subseteq C8_Seen
        /\ \A p \in 1..Len(cps) : cps[p].count = C8_CountOf(cps[p].address)
        /\ \A p \in 1..(Len(cps) - 1) : cps[p].count >= cps[p + 1].count
        /\ \A a \in C8_Seen \ kept :
             \A p \in 1..Len(cps) : C8_CountOf(a) <= cps[p].count
        /\ result.uniqueWallets = Cardinality(C8_Seen)

\* a scan of more than 30 counterparties, one with two transfers that is not
\* among the first 30 accumulated
C8_Witness ==
  /\ result.returned
  /\ result.uniqueWallets > 30
  /\ Len(result.counterparties) = 30
  /\ \E i \in 31..Len(cpMap) :
       /\ cpMap[i].count = 2
       /\ result.counterparties[1].address = cpMap[i].address

\* the day keys of the qualifying transfers of counterparty a
C9_DaysOf(a) ==
  { IsoDay(raw[i].ts) : i \in { j \in 1..Len(raw) : raw[j].counterparty = a } }

\* C9: recurrence entry k (1 <= k <= 15) counts each counterparty whose
\* qualifying transfers fall on exactly k distinct day keys once, and no other
\* counterparty, however many transfers it has on each day: one more such
\* counterparty is one more in entry k and nothing more in the others.
C9_RecurrenceByDays ==
  result.returned =>
    /\ Len(result.recurrence) = 15
    /\ \A k \in 1..15 :
         /\ result.recurrence[k].days = k
         /\ result.recurrence[k].wallets
              = Cardinality({ a \in C8_Seen : Cardinality(C9_DaysOf(a)) = k })

\* a counterparty with four transfers on three days, counted in entry 3
C9_Witness ==
  /\ result.returned
  /\ \E a \in C8_Seen :
       /\ Cardinality(C9_DaysOf(a)) = 3
       /\ C8_CountOf(a) = 4
  /\ result.recurrence[3].wallets = 1
  /\ result.recurrence[4].wallets = 0

\* C10: a native transfer of fewer than 1000 base units changes no daily
\* bucket, no counterparty record and adds no flow event, while one of exactly
\* 1000 base units between the wallet and a counterparty is recorded and adds
\* a flow event; a token transfer whose tokenAmount is missing or below 1e-6
\* changes no counterparty record and adds no flow event.
C10_Dust ==
  [][ /\ NativeStep /\ LastNative(txs').amount < 1000 =>
           UNCHANGED << dMap, cpMap, raw >>
      /\ NativeStep /\ LastNative(txs').amount = 1000
           /\ Tracked(Counterparty(LastNative(txs'))) =>
           /\ Len(raw') = Len(raw) + 1
           /\ raw'[Len(raw')].counterparty = Counterparty(LastNative(txs'))
           /\ raw'[Len(raw')].incoming + raw'[Len(raw')].outgoing = 1000
           /\ cpMap' # cpMap
      /\ TokenStep /\ (\/ ~LastToken(txs').hasAmount
                       \/ LastToken(txs').tokenAmount < 10) =>
           UNCHANGED << dMap, cpMap, raw >> ]_vars

\* a scan that met a native transfer of 999 base units from a counterparty
\* and then one of 1000 base units, and recorded the second alone
C10_Witness ==
  /\ \E t \in 1..Len(txs) :
       \E i \in 1..Len(txs[t].nativeTransfers) :
         /\ txs[t].nativeTransfers[i].amount = 999
         /\ Tracked(Counterparty(txs[t].nativeTransfers[i]))
  /\ \E t \in 1..Len(txs) :
       \E i \in 1..Len(txs[t].nativeTransfers) :
         txs[t].nativeTransfers[i].amount = 1000
  /\ Len(raw) = 1
  /\ Len(cpMap) = 1
  /\ raw[1].incoming + raw[1].outgoing = 1000

\* C11: no flow event and no counterparty record has the tracked wallet as
\* its counterparty, during the scan and in the result, transfers from the
\* wallet to itself included.
C11_NeverSelf ==
  /\ \A i \in 1..Len(raw) : raw[i].counterparty # Wallet
  /\ \A i \in 1..Len(cpMap) : cpMap[i].address # Wallet
  /\ result.returned =>
       /\ \A i \in 1..Len(result.rawEvents) :
            result.rawEvents[i].counterparty # Wallet
       /\ \A i \in 1..Len(result.counterparties) :
            result.counterparties[i].address # Wallet

\* a list with a native transfer from the wallet to itself that is not dust,
\* and a transfer with a counterparty after it
C11_Witness ==
  /\ result.returned
  /\ \E t \in 1..Len(txs) : \E i \in 1..Len(txs[t].nativeTransfers) :
       /\ txs[t].nativeTransfers[i].fromUserAccount = Wallet
       /\ txs[t].nativeTransfers[i].toUserAccount = Wallet
       /\ txs[t].nativeTransfers[i].amount >= 1000
  /\ Len(result.rawEvents) = 1
  /\ result.uniqueWallets = 1

\* the runs whose fetchTxs has not returned, and the page it got last
C13_Fetching(run) == run.pc \in {"page", "sleep"}

\* C13: every transaction fetchTxs gathers and returns has timestamp * 1000
\* at or after the clock reading of the fetch's start less 15 days, and a
\* fetch that waits to request, or has requested, a further page got as its
\* last page 100 transactions, none of them older than that.
C13_CutoffAndStop ==
  \A r \in Active :
    LET run == runs[r]
        cutoff == now - 15 * 24 * 3600 * 1000
    IN  /\ \A k \in 1..Len(run.all) : run.all[k].timestamp * 1000 >= cutoff
        /\ (run.pc = "sleep" \/ (run.pc = "page" /\ run.page > 1)) =>
             /\ Len(run.txs) = 100
             /\ \A k \in 1..Len(run.txs) : run.txs[k].timestamp * 1000 >= cutoff
        /\ run.pc = "holdings" /\ At(run.newResults, run.i) # Null =>
             At(run.newResults, run.i).transactions = Len(run.all)

\* a fetch that got a full page and then a full page whose 50th transaction
\* is too old, and returned the 149 before it
C13_Witness ==
  \E r \in 1..MaxRuns :
    /\ runs[r].pc = "holdings"
    /\ runs[r].page = 2
    /\ Len(runs[r].txs) = 100
    /\ runs[r].txs[50].timestamp * 1000 < now - 15 * 24 * 3600 * 1000
    /\ runs[r].txs[51].timestamp * 1000 >= now - 15 * 24 * 3600 * 1000
    /\ Len(runs[r].all) = 149

\* the cursor of the request in flight is the signature of the last
\* transaction of the page before, and the first request has none
C14_Cursor(run) ==
  run.pc = "page" =>
    /\ run.url.kind = "transactions"
    /\ run.page = 1 => run.url.before = NoCursor
    /\ run.page > 1 => run.url.before = run.txs[Len(run.txs)].signature

\* C14 as claimed: fetchTxs requests no more than 20 pages and gathers no
\* more than 2000 transactions, each request after the first carrying the
\* signature of the last transaction of the page before.
C14_Original ==
  \A r \in Active :
    /\ runs[r].page <= 20
    /\ Len(runs[r].all) <= 2000
    /\ C14_Cursor(runs[r])

\* C14 amended: fetchTxs requests no more than 21 pages and gathers no more
\* than 2100 transactions, each request after the first carrying the
\* signature of the last transaction of the page before; and whatever the
\* server answers, a fetch in progress comes to its end.
C14_TwentyOnePages ==
  /\ [](\A r \in Active :
          /\ runs[r].page <= 21
          /\ Len(runs[r].all) <= 2100
          /\ C14_Cursor(runs[r]))
  /\ C13_Fetching(runs[1]) ~> ~C13_Fetching(runs[1])

\* a fetch whose server answered 21 full pages of recent transactions, and
\* that has returned them
C14_Witness ==
  /\ runs[1].pc = "holdings"
  /\ runs[1].page = 21
  /\ Len(runs[1].all) = 2100
  /\ At(runs[1].newResults, 0) # Null

\* what run r has gathered once a step is over: its arrays, or the state it
\* stored them in when the step took it through lines 532-549
C15_After(r) ==
  IF runs'[r].pc = "idle"
  THEN [newResults |-> results', newErrors |-> errors',
        newHoldings |-> holdingsArr', newHoldingsErrors |-> holdingsErrors']
  ELSE runs'[r]

\* the transaction fetch of run b's slot has returned one transaction or more
C15_Fetched(b) ==
  /\ b.pc = "holdings"
  /\ b.res.kind = "response"
  /\ ResOk(b.res.status)
  /\ Len(b.all) >= 1

\* a step of run r's transaction fetch touches the slot's own result and
\* error only and does not end the run; a fetch that returned transactions
\* leaves the slot's result set and its error clear
C15_FetchStep(r) ==
  LET a == runs[r]
      b == C15_After(r)
  IN  /\ runs'[r].pc # "idle"
      /\ \A j \in 0..(Slots - 1) :
            j # a.i => /\ At(b.newResults, j) = At(a.newResults, j)
                       /\ At(b.newErrors, j) = At(a.newErrors, j)
      /\ b.newHoldings = a.newHoldings
      /\ b.newHoldingsErrors = a.newHoldingsErrors
      /\ C15_Fetched(runs'[r]) => /\ At(b.newResults, a.i) # Null
                                  /\ At(b.newErrors, a.i) = ""

\* the holdings fetch of run r settles: the results and the errors stay as
\* they are, in the run or in what it stores; the slot's holdings are set or
\* its holdings error is, and no other slot's; the run goes on to the next
\* filled slot and ends only past the last
C15_HoldingsStep(r) ==
  LET a == runs[r]
      b == C15_After(r)
      rest == FilledFrom(a.wallets, a.i + 1)
  IN  /\ b.newResults = a.newResults
      /\ b.newErrors = a.newErrors
      /\ \A j \in 0..(Slots - 1) :
            j # a.i => /\ At(b.newHoldings, j) = At(a.newHoldings, j)
                       /\ At(b.newHoldingsErrors, j) = At(a.newHoldingsErrors, j)
      /\ (At(b.newHoldings, a.i) = Null) # (At(b.newHoldingsErrors, a.i) = "")
      /\ IF rest = {} THEN runs'[r].pc = "idle"
         ELSE /\ runs'[r].pc = "page"
              /\ runs'[r].i \in rest
              /\ \A j \in rest : runs'[r].i <= j

\* C15: in a handleAnalyze run every filled slot is fetched in its turn,
\* whatever happened to the slots before it; a slot whose transaction fetch
\* returns one transaction or more has its result set, and nothing that
\* happens afterwards in the run (another slot's failure, its own or another
\* slot's holdings failure) clears it before the run stores results;
\* a holdings failure in slot i sets holdingsErrors[i] and nothing else.
C15_Isolation ==
  [][\A r \in Active :
       runs'[r] # runs[r] =>
         /\ runs[r].pc \in {"page", "sleep"} => C15_FetchStep(r)
         /\ runs[r].pc = "holdings" => C15_HoldingsStep(r)]_vars

\* a run is over in which slot 0's fetch failed, slot 1's returned
\* transactions but its holdings failed, and slot 2's both succeeded
C15_Witness ==
  /\ family = "slots"
  /\ ~loading
  /\ ~isDemo
  /\ At(results, 0) = Null /\ At(errors, 0) = InvalidKeyMessage
  /\ At(results, 1) # Null /\ At(errors, 1) = ""
  /\ At(holdingsArr, 1) = Null /\ At(holdingsErrors, 1) # ""
  /\ At(results, 2) # Null /\ At(holdingsArr, 2) # Null
  /\ At(holdingsErrors, 2) = ""

\* the message the dashboard shows for a status that is not 2xx
C16_Message(status) ==
  CASE status \in {401, 403} -> "Invalid Helius API key"
    [] status = 429 -> "Helius error 429"
    [] status = 500 -> "Helius error 500"

\* the transaction fetch of run a's slot ended on a status that is not 2xx
C16_Refused(a) ==
  /\ a.pc = "holdings"
  /\ a.res.kind = "response"
  /\ ~(a.res.status >= 200 /\ a.res.status <= 299)

\* C16: a page request answered by a status that is not 2xx makes fetchTxs
\* fail with 'Invalid Helius API key' for 401 and 403 and with a message
\* naming the status for any other; whatever the earlier pages gave, the
\* slot's result is null and the message is the slot's error, in the run and
\* in what the run stores when it ends.
C16_StatusMessages ==
  /\ [](\A r \in Active :
          C16_Refused(runs[r]) =>
            /\ At(runs[r].newErrors, runs[r].i) = C16_Message(runs[r].res.status)
            /\ At(runs[r].newResults, runs[r].i) = Null)
  /\ [][\A r \in Active :
          C16_Refused(runs[r]) /\ runs'[r].pc = "idle" =>
            /\ At(errors', runs[r].i) = C16_Message(runs[r].res.status)
            /\ At(results', runs[r].i) = Null]_vars

\* a fetch whose first page was full and whose second was refused with
\* status 500 has failed: the hundred transactions are not a result
C16_Witness ==
  /\ C16_Refused(runs[1])
  /\ runs[1].res.status = 500
  /\ runs[1].page = 2
  /\ Len(runs[1].all) = PageLimit
  /\ At(runs[1].newErrors, 0) = "Helius error 500"
  /\ At(runs[1].newResults, 0) = Null

\* run a has called fetchTxs for slot j: the for loop has reached the slot
C17_TxStarted(a, j) == j <= a.i

\* run a has called fetchHoldings for slot j: it is past the slot's
\* transaction fetch
C17_HoldingsStarted(a, j) == j < a.i \/ (j = a.i /\ a.pc = "holdings")

\* C17: the fetches of a run go on side by side: while the transaction fetch
\* of one wallet is in progress, the transaction fetch and the holdings
\* fetch of every filled slot have been started, that wallet's own holdings
\* fetch among them.
C17_Concurrent ==
  \A r \in Active :
    C13_Fetching(runs[r]) =>
      \A j \in FilledFrom(runs[r].wallets, 0) :
        /\ C17_TxStarted(runs[r], j)
        /\ C17_HoldingsStarted(runs[r], j)

\* the slots that hold a result
C18_WithData(arr) == { i \in 0..(Slots - 1) : At(arr, i) # Null }

\* C18: a handleAnalyze run that ends with a result in some slot leaves
\* activeTab on the lowest such slot; and in every state the dashboard can
\* be in after analyses, demos and tab clicks, if some slot holds a result
\* then the slot activeTab selects holds one.
C18_ActiveTab ==
  /\ [](C18_WithData(results) # {} => activeTab \in C18_WithData(results))
  /\ [][\A r \in Active :
          runs'[r].pc = "idle" /\ C18_WithData(results') # {} =>
            /\ activeTab' \in C18_WithData(results')
            /\ \A j \in C18_WithData(results') : activeTab' <= j]_vars

\* a run is over whose slot 0 gave no result and whose slots 1 and 2 did:
\* the dashboard shows slot 1
C18_Witness ==
  /\ family = "slots"
  /\ ~loading
  /\ ~isDemo
  /\ C18_WithData(results) = {1, 2}
  /\ activeTab = 1
  /\ At(errors, 0) # ""

\* the daily buckets of the result
C19_Days == 1..Len(result.dailyData)

\* C19: the totals analyze returns are the sums over the daily buckets it
\* returns: totalIn of their incoming, totalOut of their outgoing, totalTx
\* of their txCount.
C19_TotalsOfBuckets ==
  result.returned =>
    /\ result.totalIn
         = SumOver([ p \in C19_Days |-> result.dailyData[p].incoming ], C19_Days)
    /\ result.totalOut
         = SumOver([ p \in C19_Days |-> result.dailyData[p].outgoing ], C19_Days)
    /\ result.totalTx
         = SumOver([ p \in C19_Days |-> result.dailyData[p].txCount ], C19_Days)

\* a result with money in and money out, its transactions in two buckets
C19_Witness ==
  /\ result.returned
  /\ result.totalIn > 0
  /\ result.totalOut > 0
  /\ \E p, q \in C19_Days :
       /\ p # q
       /\ result.dailyData[p].txCount > 0
       /\ result.dailyData[q].txCount > 0

C21_Amounts(d) ==
  [ k \in DOMAIN d |-> << d[k].incoming, d[k].outgoing >> ]

\* a native transfer the classifier calls Irrelevant for its endpoints:
\* neither is the tracked wallet, or both are
C21_Irrelevant(nt) ==
  (nt.toUserAccount = Wallet) = (nt.fromUserAccount = Wallet)

\* C21: a native transfer neither of whose endpoints is the tracked wallet,
\* or both of whose endpoints are, changes no daily bucket's incoming or
\* outgoing; a native transfer that does change a daily amount also yields a
\* flow event and a counterparty update.
C21_IrrelevantFrame ==
  [][ NativeStep =>
        /\ C21_Irrelevant(LastNative(txs')) => C21_Amounts(dMap') = C21_Amounts(dMap)
        /\ C21_Amounts(dMap') # C21_Amounts(dMap) =>
             /\ Len(raw') = Len(raw) + 1
             /\ cpMap' # cpMap ]_vars

\* the bucket size and the bucket count the window of the panel's call asks for
C22_Size == IF panel.ms <= 3600000 THEN 300000 ELSE 3600000
C22_Count ==
  CHOOSE n \in 0..24 : (n - 1) * C22_Size < panel.ms /\ panel.ms <= n * C22_Size

\* the events of C5_Inside that belong to bucket b (counted from 0) of a
\* window that starts at panel.t1 - panel.ms
C22_InBucket(b) ==
  { i \in C5_Inside :
      LET q == (raw[i].ts - (panel.t1 - panel.ms)) \div C22_Size
      IN  b = IF q < C22_Count - 1 THEN q ELSE C22_Count - 1 }

\* C22: compWin returns ceil(duration / bucketSize) buckets, of 5 minutes
\* for a duration up to an hour and of an hour otherwise; every event that
\* passes the window filter is added to the one bucket its offset from the
\* window start gives, the last one at most, and none is dropped: the
\* buckets' incoming and outgoing sum to the result's incoming and outgoing.
C22_Buckets ==
  panel.kind = "win" =>
    LET bk == panel.res.buckets
    IN  /\ Len(bk) = C22_Count
        /\ \A b \in 0..(Len(bk) - 1) :
             /\ bk[b + 1].incoming = SumOver(Incomings(raw), C22_InBucket(b))
             /\ bk[b + 1].outgoing = SumOver(Outgoings(raw), C22_InBucket(b))
        /\ SumSeq(Incomings(bk)) = panel.res.incoming
        /\ SumSeq(Outgoings(bk)) = panel.res.outgoing

\* the flow event a step has just pushed
C23_Pushed == raw'[Len(raw')]

\* a step that scans a native transfer and pushes an event pushes the
\* transfer's amount in the wallet's direction, with the other end as
\* counterparty
C23_NativeEvent ==
  NativeStep /\ Len(raw') = Len(raw) + 1 =>
    LET nt == LastNative(txs')
        e == C23_Pushed
    IN  /\ ~e.tokenOnly
        /\ nt.toUserAccount = Wallet \/ nt.fromUserAccount = Wallet
        /\ nt.toUserAccount = Wallet =>
             /\ e.incoming = nt.amount
             /\ e.outgoing = 0
             /\ e.counterparty = nt.fromUserAccount
        /\ nt.fromUserAccount = Wallet =>
             /\ e.outgoing = nt.amount
             /\ e.incoming = 0
             /\ e.counterparty = nt.toUserAccount

\* a step that scans a token transfer and pushes an event pushes a
\* token-only event without amounts
C23_TokenEvent ==
  TokenStep /\ Len(raw') = Len(raw) + 1 =>
    /\ C23_Pushed.tokenOnly
    /\ C23_Pushed.incoming = 0
    /\ C23_Pushed.outgoing = 0
    /\ C23_Pushed.counterparty \in { LastToken(txs').fromUserAccount,
                                     LastToken(txs').toUserAccount }

\* every event is a token event without amounts or an event with one amount
C23_Events ==
  \A i \in 1..Len(raw) :
    IF raw[i].tokenOnly
    THEN raw[i].incoming = 0 /\ raw[i].outgoing = 0
    ELSE (raw[i].incoming = 0) # (raw[i].outgoing = 0)

\* C23: every flow event of a native transfer has exactly one of incoming
\* and outgoing nonzero: incoming, the transfer's amount, with the sender as
\* counterparty when the tracked wallet is the receiver; outgoing, with the
\* receiver as counterparty, when it is the sender.  Every flow event of a
\* token transfer has both amounts zero.
C23_OneDirection ==
  []C23_Events /\ [][C23_NativeEvent /\ C23_TokenEvent]_vars

\* the scan has pushed an event of money sent by the wallet and an event of
\* a token transfer
C23_Witness ==
  \E i, j \in 1..Len(raw) :
    /\ ~raw[i].tokenOnly /\ raw[i].outgoing > 0 /\ raw[i].incoming = 0
    /\ raw[j].tokenOnly

\* the volume address a's record holds for the token label tok in m, 0 when
\* there is no such record or no such label
C24_Volume(m, a, tok) ==
  IF CpIndex(m, a) = 0 THEN 0
  ELSE LET t == CpOf(m, a).tokens
       IN  IF \E i \in 1..Len(t) : t[i].name = tok
           THEN t[CHOOSE i \in 1..Len(t) : t[i].name = tok].volume
           ELSE 0

\* a qualifying native transfer adds its amount to the volume for SOL
C24_NativeVolume ==
  NativeStep /\ Len(raw') = Len(raw) + 1 =>
    LET nt == LastNative(txs')
        x == C23_Pushed.counterparty
    IN  C24_Volume(cpMap', x, << "S", "O", "L" >>)
          = C24_Volume(cpMap, x, << "S", "O", "L" >>) + nt.amount

\* a qualifying token transfer adds its raw amount to the volume for its
\* mint's label, which is then positive
C24_MintVolume ==
  TokenStep /\ Len(raw') = Len(raw) + 1 =>
    LET tt == LastToken(txs')
        x == C23_Pushed.counterparty
    IN  /\ C24_Volume(cpMap', x, TokenLabel(tt))
             = C24_Volume(cpMap, x, TokenLabel(tt)) + tt.tokenAmount
        /\ C24_Volume(cpMap', x, TokenLabel(tt)) > 0

\* C24: a counterparty's volume for a label is the sum of the amounts of its
\* qualifying transfers with that label: a qualifying native transfer adds
\* its amount to the volume for SOL, a qualifying token transfer adds its raw
\* token amount to the volume for its mint's label, which is then positive.
C24_TokenVolume ==
  [][C24_NativeVolume /\ C24_MintVolume]_vars

\* the record of address a in m, or the record a first sight creates
C25_Record(m, a) == IF CpIndex(m, a) = 0 THEN NewCp(a) ELSE CpOf(m, a)

\* the per-day entry of a record for day dk, zero when it has none
C25_Day(c, dk) ==
  IF dk \in DOMAIN c.dd THEN c.dd[dk] ELSE [incoming |-> 0, outgoing |-> 0]

\* the addresses that have a record in m
C25_Addresses(m) == { m[i].address : i \in 1..Len(m) }

\* a step that calls trkCp: for the address, the day and the amounts of the
\* event pushed with the call, the record is as the call has to leave it,
\* and every other record is as it was
C25_Call ==
  cpMap' # cpMap =>
    /\ Len(raw') = Len(raw) + 1
    /\ LET e == C23_Pushed
           a == e.counterparty
           dk == TxDay(CurTx)
           old == C25_Record(cpMap, a)
           new == C25_Record(cpMap', a)
       IN  /\ CpIndex(cpMap', a) # 0
           /\ CpIndex(cpMap, a) = 0 =>
                /\ old.count = 0
                /\ old.totalSol = 0 /\ old.incomingSol = 0 /\ old.outgoingSol = 0
                /\ old.days = {} /\ old.dd = << >> /\ old.tokens = << >>
           /\ new.address = a
           /\ new.count = old.count + 1
           /\ new.days = old.days \cup {dk}
           /\ new.incomingSol = old.incomingSol + e.incoming
           /\ new.outgoingSol = old.outgoingSol + e.outgoing
           /\ new.totalSol = old.totalSol + e.incoming + e.outgoing
           /\ DOMAIN new.dd = DOMAIN old.dd \cup {dk}
           /\ new.dd[dk].incoming = C25_Day(old, dk).incoming + e.incoming
           /\ new.dd[dk].outgoing = C25_Day(old, dk).outgoing + e.outgoing
           /\ \A k \in DOMAIN old.dd \ {dk} : new.dd[k] = old.dd[k]
           /\ C25_Addresses(cpMap') = C25_Addresses(cpMap) \cup {a}
           /\ \A b \in C25_Addresses(cpMap) \ {a} : CpOf(cpMap', b) = CpOf(cpMap, b)

\* no record is ever removed, and no address has two
C25_Grows ==
  /\ C25_Addresses(cpMap) \subseteq C25_Addresses(cpMap')
  /\ Len(cpMap') = Cardinality(C25_Addresses(cpMap'))

\* every record's total is the sum of its two directions
C25_Totals ==
  \A i \in 1..Len(cpMap) :
    cpMap[i].totalSol = cpMap[i].incomingSol + cpMap[i].outgoingSol

C26_Inside == { i \in 1..Len(raw) : raw[i].ts >= panel.t - 3 * 86400000 }

\* those of them that happened in hour h of the viewer's day
C26_InHour(h) ==
  { i \in C26_Inside : ((raw[i].ts + tz) \div 3600000) % 24 = h }

C27_SingleRun ==
  /\ Cardinality(Active) <= 1
  /\ loading <=> Active # {}

\* run r ends in this step
C28_Ends(r) == runs[r].pc # "idle" /\ runs'[r].pc = "idle"

\* C28: the run that began last decides what the dashboard holds once all
\* runs are over: when it ends, results, errors and holdings are what it
\* gathered (the holdings of its last slot settle in the step that ends
\* it); a run that began before it and ends after it leaves them as they
\* are.
C28_LatestWins ==
  [][\A r \in 1..MaxRuns :
       C28_Ends(r) =>
         IF r = lastStarted
         THEN /\ results' = runs[r].newResults
              /\ errors' = runs[r].newErrors
              /\ \A j \in 0..(Slots - 1) :
                   j # runs[r].i =>
                     /\ At(holdingsArr', j) = At(runs[r].newHoldings, j)
                     /\ At(holdingsErrors', j) = At(runs[r].newHoldingsErrors, j)
              /\ At(holdingsArr', runs[r].i) # Null
                   => At(holdingsArr', runs[r].i).wallet = runs[r].addr
         ELSE runs[lastStarted].pc = "idle" =>
                /\ results' = results
                /\ errors' = errors
                /\ holdingsArr' = holdingsArr
                /\ holdingsErrors' = holdingsErrors]_vars

\* the flow events with counterparty a
C29_EventsOf(a) == { i \in 1..Len(raw) : raw[i].counterparty = a }

\* C29: at every point of the scan the counterparty records and the flow
\* events agree: an address has a record exactly when it has a flow event;
\* the record's count is the number of its events and its incomingSol and
\* outgoingSol are the sums of their incoming and outgoing; and the result's
\* uniqueWallets is the number of distinct counterparties of its rawEvents.
C29_MapAndEvents ==
  /\ C25_Addresses(cpMap) = { raw[i].counterparty : i \in 1..Len(raw) }
  /\ \A k \in 1..Len(cpMap) :
       LET a == cpMap[k].address
       IN  /\ cpMap[k].count = Cardinality(C29_EventsOf(a))
           /\ cpMap[k].incomingSol = SumOver(Incomings(raw), C29_EventsOf(a))
           /\ cpMap[k].outgoingSol = SumOver(Outgoings(raw), C29_EventsOf(a))
  /\ result.returned =>
       result.uniqueWallets
         = Cardinality({ result.rawEvents[i].counterparty :
                           i \in 1..Len(result.rawEvents) })

\* a result over two counterparties, one of them with several events
C29_Witness ==
  /\ result.returned
  /\ result.uniqueWallets = 2
  /\ Len(raw) >= 3
  /\ \E k \in 1..Len(cpMap) : cpMap[k].incomingSol > 0 /\ cpMap[k].count >= 2

\* C30: every handleAnalyze run that has passed its validation comes to its
\* end, whatever its requests are answered, and the step that ends it sets
\* loading to false and clears the progress message.
C30_Completes ==
  /\ \A r \in 1..MaxRuns : (runs[r].pc # "idle") ~> (runs[r].pc = "idle")
  /\ [][\A r \in 1..MaxRuns :
          C28_Ends(r) => ~loading' /\ progress' = NoProgress]_vars

\* a run over three wallets is over, loading is false and the progress
\* message is clear: the first wallet's transactions were refused, the second
\* had none, the third had some but no holdings
C30_Witness ==
  /\ family = "slots"
  /\ Active = {}
  /\ ~loading
  /\ progress = NoProgress
  /\ At(errors, 0) = "Helius error 500"
  /\ At(errors, 1) = "No transactions in last 15 days."
  /\ At(results, 2) # Null
  /\ At(holdingsErrors, 2) = "Could not load token holdings"

====
